---- MODULE Spec2Model ----
(***************************************************************************)
(* The lexer of src/lexer/lexer.rs as a state machine.  A Lexer value is   *)
(* the record [position, read_position, ch] over the byte buffer `input`;  *)
(* the private helpers of the impl block are operators on that record and  *)
(* the one public operation, next_token, is the action NextToken.  Bytes   *)
(* are the numbers 0..255, text is a sequence of code points.              *)
(***************************************************************************)
EXTENDS Integers, Sequences, FiniteSets, TLC

\* Bounds of the exploration.
MaxLen   == 3    \* characters of an input built from Chars
MaxWords == 2    \* words of an input built from Words
MaxExtra == 2    \* calls of next_token explored after position == len(input)

VARIABLES
    input,          \* Lexer.input: the bytes of the String given to Lexer::new
    position,       \* Lexer.position
    read_position,  \* Lexer.read_position
    ch,             \* Lexer.ch
    tokens,         \* the tokens next_token has returned, in call order
    outcome,        \* of the last call: "none" before any, "ok", or "panic"
    start,          \* position on entry to the last call
    skipped         \* bytes the last call's skip_whitespace advanced over

vars == <<input, position, read_position, ch, tokens, outcome, start, skipped>>

----------------------------------------------------------------------------
\* TokenType: a variant without data has the empty text.

Tok(type)        == [type |-> type, text |-> <<>>]
Data(type, text) == [type |-> type, text |-> text]

TokenTypes ==
    {"Ident", "Int", "Illegal", "Eof", "Assign", "Bang", "Dash", "ForwardSlash",
     "Asterisk", "Equal", "NotEqual", "LessThan", "GreaterThan", "Plus", "Comma",
     "Semicolon", "Lparen", "Rparen", "LSquirly", "RSquirly", "Function", "Let",
     "If", "Else", "Return", "True", "False"}

----------------------------------------------------------------------------
\* u8 classification (core::num, as called by the lexer).

\* The whitespace set without the form feed.
is_ascii_whitespace_four(c) == c \in {32, 9, 10, 13}

\* u8::is_ascii_whitespace: space, tab, line feed, form feed, carriage return.
is_ascii_whitespace(c) == c \in {32, 9, 10, 12, 13}

is_ascii_alphabetic(c) == (c >= 65 /\ c <= 90) \/ (c >= 97 /\ c <= 122)

\* A digit range that stops short of '9'.
is_ascii_digit_short(c) == c >= 48 /\ c < 57

is_ascii_digit(c) == c >= 48 /\ c <= 57

\* String::from_utf8_lossy(..).to_string() on a byte slice: an ASCII byte is
\* its own code point; a byte that starts no valid sequence decodes to U+FFFD.
\* (The slices the lexer decodes hold ASCII letters, '_' and digits only.)
from_utf8_lossy(bytes) ==
    [i \in 1..Len(bytes) |-> IF bytes[i] < 128 THEN bytes[i] ELSE 65533]

\* &self.input[from..to], 0-based and half-open.
Slice(from, to) == SubSeq(input, from + 1, to)

----------------------------------------------------------------------------
\* The Lexer methods.  l is the record of the cursor fields.

Lexer(p, r, c) == [position |-> p, read_position |-> r, ch |-> c]

\* read_char that leaves position where it was.
read_char_stay(l) ==
    Lexer(l.position,
          l.read_position + 1,
          IF l.read_position < Len(input) THEN input[l.read_position + 1] ELSE 0)

read_char(l) ==
    Lexer(l.read_position,
          l.read_position + 1,
          IF l.read_position < Len(input) THEN input[l.read_position + 1] ELSE 0)

new == read_char(Lexer(0, 0, 0))

\* peek that looks at the current byte instead of the next one.
peek_current(l) == l.ch

peek(l) ==
    IF l.read_position >= Len(input) THEN 0 ELSE input[l.read_position + 1]

RECURSIVE skip_whitespace(_)
skip_whitespace(l) ==
    IF is_ascii_whitespace(l.ch) THEN skip_whitespace(read_char(l)) ELSE l

\* A loop condition that lets digits continue an identifier.
ident_cond_digits(c) == is_ascii_alphabetic(c) \/ c = 95 \/ is_ascii_digit(c)

\* The loop condition of read_ident.
ident_cond(c) == is_ascii_alphabetic(c) \/ c = 95

RECURSIVE ident_loop(_)
ident_loop(l) == IF ident_cond(l.ch) THEN ident_loop(read_char(l)) ELSE l

read_ident(l) ==
    LET e == ident_loop(l)
    IN  [lexer |-> e, text |-> from_utf8_lossy(Slice(l.position, e.position))]

RECURSIVE int_loop(_)
int_loop(l) == IF is_ascii_digit(l.ch) THEN int_loop(read_char(l)) ELSE l

read_int(l) ==
    LET e == int_loop(l)
    IN  [lexer |-> e, text |-> from_utf8_lossy(Slice(l.position, e.position))]

\* The keyword table of next_token.
kw_fn     == <<102, 110>>
kw_let    == <<108, 101, 116>>
kw_if     == <<105, 102>>
kw_false  == <<102, 97, 108, 115, 101>>
kw_true   == <<116, 114, 117, 101>>
kw_return == <<114, 101, 116, 117, 114, 110>>
kw_else   == <<101, 108, 115, 101>>

keyword(ident) ==
    CASE ident = kw_fn     -> Tok("Function")
      [] ident = kw_let    -> Tok("Let")
      [] ident = kw_if     -> Tok("If")
      [] ident = kw_false  -> Tok("False")
      [] ident = kw_true   -> Tok("True")
      [] ident = kw_return -> Tok("Return")
      [] ident = kw_else   -> Tok("Else")
      [] OTHER             -> Data("Ident", ident)

\* The match without its arm for the 0 sentinel.
simple_no_eof(c) ==
    CASE c = 123 -> "LSquirly"
      [] c = 125 -> "RSquirly"
      [] c = 40  -> "Lparen"
      [] c = 41  -> "Rparen"
      [] c = 44  -> "Comma"
      [] c = 59  -> "Semicolon"
      [] c = 43  -> "Plus"
      [] c = 45  -> "Dash"
      [] c = 62  -> "GreaterThan"
      [] c = 60  -> "LessThan"
      [] c = 42  -> "Asterisk"
      [] c = 47  -> "ForwardSlash"
      [] OTHER   -> "unreachable"

\* The arms of the match that only name a token; "unreachable" is the last
\* arm, unreachable!(..), which panics.
simple(c) ==
    CASE c = 123 -> "LSquirly"
      [] c = 125 -> "RSquirly"
      [] c = 40  -> "Lparen"
      [] c = 41  -> "Rparen"
      [] c = 44  -> "Comma"
      [] c = 59  -> "Semicolon"
      [] c = 43  -> "Plus"
      [] c = 45  -> "Dash"
      [] c = 62  -> "GreaterThan"
      [] c = 60  -> "LessThan"
      [] c = 42  -> "Asterisk"
      [] c = 47  -> "ForwardSlash"
      [] c = 0   -> "Eof"
      [] OTHER   -> "unreachable"

\* A merge that forgets to consume the second byte.
merge_no_advance(l, two, one) ==
    IF peek(l) = 61 THEN [lexer |-> l, type |-> two]
                    ELSE [lexer |-> l, type |-> one]

\* The arms of '!' and '=': one more read_char when the next byte is '='.
merge(l, two, one) ==
    IF peek(l) = 61 THEN [lexer |-> read_char(l), type |-> two]
                    ELSE [lexer |-> l, type |-> one]

Ok(l, s, tok) == [lexer |-> l, skip |-> s, result |-> "ok", tok |-> tok]
Panic(s)      == [lexer |-> s, skip |-> s, result |-> "panic", tok |-> Tok("Illegal")]

\* next_token: the cursor it leaves, the cursor after skip_whitespace, and
\* Ok(token) or the panic of the unreachable arm (no token: tok is unused).
next_token(l) ==
    LET s == skip_whitespace(l)
        c == s.ch
    IN  IF c = 33 \/ c = 61
        THEN LET m == IF c = 33 THEN merge(s, "NotEqual", "Bang")
                                ELSE merge(s, "Equal", "Assign")
             IN  Ok(read_char(m.lexer), s, Tok(m.type))
        ELSE IF (c >= 97 /\ c <= 122) \/ (c >= 65 /\ c <= 90) \/ c = 95
        THEN LET r == read_ident(s) IN Ok(r.lexer, s, keyword(r.text))
        ELSE IF c >= 48 /\ c <= 57
        THEN LET r == read_int(s) IN Ok(r.lexer, s, Data("Int", r.text))
        ELSE IF simple(c) = "unreachable"
        THEN Panic(s)
        ELSE Ok(read_char(s), s, Tok(simple(c)))

----------------------------------------------------------------------------
\* The inputs explored.  A String is valid UTF-8: a character is one ASCII
\* byte or a whole multi-byte sequence.

Chars ==
    { <<0>>, <<9>>, <<10>>, <<11>>, <<12>>, <<13>>, <<32>>,     \* NUL \t \n VT FF \r ' '
      <<33>>, <<61>>, <<60>>, <<62>>, <<59>>,                   \* ! = < > ;
      <<64>>, <<97>>, <<95>>, <<53>>,                           \* @ a _ 5
      <<195, 169>> }                                            \* e-acute

Words ==
    { kw_fn, kw_let, kw_if, kw_false, kw_true, kw_return, kw_else,
      <<120>>, <<90>>, <<95>>, <<48>>, <<57>>, <<32>>,          \* x Z _ 0 9 ' '
      <<123>>, <<125>>, <<40>>, <<41>>, <<44>>, <<59>>,         \* { } ( ) , ;
      <<43>>, <<45>>, <<42>>, <<47>>, <<62>>, <<60>>,           \* + - * / > <
      <<58>>, <<91>>, <<96>> }                                  \* : [ `

RECURSIVE Concat(_, _)
Concat(parts, n) ==
    IF n = 0 THEN {<<>>}
    ELSE {<<>>} \cup {p \o s : p \in parts, s \in Concat(parts, n - 1)}

Inputs == Concat(Chars, MaxLen) \cup Concat(Words, MaxWords)

----------------------------------------------------------------------------
\* Lexer::new(input), and nothing requested yet.
Init ==
    /\ input \in Inputs
    /\ position = new.position
    /\ read_position = new.read_position
    /\ ch = new.ch
    /\ tokens = <<>>
    /\ outcome = "none"
    /\ start = 0
    /\ skipped = 0

\* One call lexer.next_token() by the consumer.  A panic ends the run.
NextToken ==
    /\ outcome # "panic"
    /\ position < Len(input) + MaxExtra
    /\ LET r == next_token(Lexer(position, read_position, ch))
       IN  /\ position' = r.lexer.position
           /\ read_position' = r.lexer.read_position
           /\ ch' = r.lexer.ch
           /\ outcome' = r.result
           /\ tokens' = IF r.result = "ok" THEN Append(tokens, r.tok) ELSE tokens
           /\ start' = position
           /\ skipped' = r.skip.position - position
    /\ UNCHANGED input

Next == NextToken

Spec == Init /\ [][Next]_vars

----------------------------------------------------------------------------
\* What the last call did, read off the state.

Called   == outcome # "none"
Returned == outcome = "ok"
Last     == tokens[Len(tokens)]

\* Where the last call's dispatch looked, and the byte it found there
\* (0 past the end of the buffer).
TokStart == start + skipped
ByteAt(p) == IF p < Len(input) THEN input[p + 1] ELSE 0
DispatchByte == ByteAt(TokStart)

\* Byte classes as the specification words them.
Letter(c)     == c \in 65..90 \/ c \in 97..122 \/ c = 95
Digit(c)      == c \in 48..57
Operators     == {123, 125, 40, 41, 44, 59, 43, 45, 33, 62, 60, 42, 47, 61}
FourBlanks    == {32, 9, 10, 13}
FiveBlanks    == {32, 9, 10, 12, 13}
Unclassified(c) ==
    /\ c \notin FiveBlanks
    /\ c \notin Operators
    /\ ~Letter(c)
    /\ ~Digit(c)
    /\ c # 0

\* The spelling of a token in the source text.
Spelling(tok) ==
    CASE tok.type \in {"Ident", "Int"} -> tok.text
      [] tok.type = "Function"     -> <<102, 110>>
      [] tok.type = "Let"          -> <<108, 101, 116>>
      [] tok.type = "If"           -> <<105, 102>>
      [] tok.type = "Else"         -> <<101, 108, 115, 101>>
      [] tok.type = "Return"       -> <<114, 101, 116, 117, 114, 110>>
      [] tok.type = "True"         -> <<116, 114, 117, 101>>
      [] tok.type = "False"        -> <<102, 97, 108, 115, 101>>
      [] tok.type = "Equal"        -> <<61, 61>>
      [] tok.type = "NotEqual"     -> <<33, 61>>
      [] tok.type = "Assign"       -> <<61>>
      [] tok.type = "Bang"         -> <<33>>
      [] tok.type = "Dash"         -> <<45>>
      [] tok.type = "ForwardSlash" -> <<47>>
      [] tok.type = "Asterisk"     -> <<42>>
      [] tok.type = "LessThan"     -> <<60>>
      [] tok.type = "GreaterThan"  -> <<62>>
      [] tok.type = "Plus"         -> <<43>>
      [] tok.type = "Comma"        -> <<44>>
      [] tok.type = "Semicolon"    -> <<59>>
      [] tok.type = "Lparen"       -> <<40>>
      [] tok.type = "Rparen"       -> <<41>>
      [] tok.type = "LSquirly"     -> <<123>>
      [] tok.type = "RSquirly"     -> <<125>>
      [] OTHER                     -> <<>>

KeywordTypes ==
    {"Function", "Let", "If", "Else", "Return", "True", "False"}

\* The end (exclusive, 0-based) of the maximal run of letters and underscores
\* that starts at p.
RunEnd(p) ==
    CHOOSE e \in p..Len(input) :
        /\ \A i \in p..(e - 1) : Letter(ByteAt(i))
        /\ ~Letter(ByteAt(e))

----------------------------------------------------------------------------
\* C1: a call whose dispatch byte is in no recognised class (such as '@')
\* returns the Illegal token in-band; it does not panic.
C1_IllegalInBand ==
    (Called /\ Unclassified(DispatchByte)) =>
        (Returned /\ Last = Tok("Illegal"))

\* C2: no call crashes, whatever the input, and one of the first
\* len(input)+1 calls returns Eof.
C2_FiniteStream ==
    /\ outcome # "panic"
    /\ Len(tokens) >= Len(input) + 1 =>
           \E i \in 1..(Len(input) + 1) : tokens[i].type = "Eof"

\* C3: a call that starts with the cursor at or past the end of the input
\* returns Eof, without error, every time.
C3_EofAfterEnd ==
    (Called /\ start >= Len(input)) => (Returned /\ Last = Tok("Eof"))

C3_Witness ==
    /\ Returned
    /\ Len(input) > 0
    /\ start > Len(input)
    /\ Len(tokens) >= 3
    /\ Last = Tok("Eof")
    /\ tokens[Len(tokens) - 1] = Tok("Eof")

\* C4: on a non-empty input of ASCII digits only, the first call returns Int
\* with the whole input as its text and the second call returns Eof.
C4_DigitsOnly ==
    (Len(input) > 0 /\ \A i \in 1..Len(input) : Digit(input[i])) =>
        /\ outcome # "panic"
        /\ Len(tokens) >= 1 => tokens[1] = Data("Int", input)
        /\ Len(tokens) >= 2 => tokens[2] = Tok("Eof")

C4_Witness ==
    /\ Len(input) >= 2
    /\ \A i \in 1..Len(input) : Digit(input[i])
    /\ \E i \in 1..Len(input) : input[i] # input[1]
    /\ Len(tokens) = 2
    /\ tokens[1] = Data("Int", input)
    /\ tokens[2] = Tok("Eof")

\* C5: a call that dispatches on a letter or underscore consumes the maximal
\* run of letters and underscores; it returns the keyword token exactly when
\* the run is that keyword's spelling and Ident with the run as text otherwise.
C5_IdentOrKeyword ==
    (Called /\ Letter(DispatchByte)) =>
        LET e   == RunEnd(TokStart)
            run == SubSeq(input, TokStart + 1, e)
        IN  /\ Returned
            /\ position = e
            /\ \A k \in KeywordTypes :
                   (Last.type = k) <=> (run = Spelling(Tok(k)))
            /\ (\A k \in KeywordTypes : run # Spelling(Tok(k))) =>
                   Last = Data("Ident", run)
            /\ Last.type \in KeywordTypes \cup {"Ident"}
            /\ Last.type \in KeywordTypes => Last.text = <<>>

\* An Ident that starts with a keyword's spelling and goes on.
C5_Witness ==
    /\ Returned
    /\ Last.type = "Ident"
    /\ \E k \in KeywordTypes :
           /\ Len(Last.text) > Len(Spelling(Tok(k)))
           /\ SubSeq(Last.text, 1, Len(Spelling(Tok(k)))) = Spelling(Tok(k))

\* C6: '=' or '!' directly followed by '=' gives Equal or NotEqual and
\* consumes two bytes; followed by anything else (or nothing) it gives Assign
\* or Bang and consumes one byte; '<' and '>' always give LessThan and
\* GreaterThan and consume one byte, so "<=" and ">=" give two tokens.
C6_MergeOnlyEqNe ==
    /\ (Called /\ DispatchByte \in {61, 33}) =>
           /\ Returned
           /\ ByteAt(TokStart + 1) = 61 =>
                  /\ Last = Tok(IF DispatchByte = 61 THEN "Equal" ELSE "NotEqual")
                  /\ position = TokStart + 2
           /\ ByteAt(TokStart + 1) # 61 =>
                  /\ Last = Tok(IF DispatchByte = 61 THEN "Assign" ELSE "Bang")
                  /\ position = TokStart + 1
    /\ (Called /\ DispatchByte \in {60, 62}) =>
           /\ Returned
           /\ Last = Tok(IF DispatchByte = 60 THEN "LessThan" ELSE "GreaterThan")
           /\ position = TokStart + 1
    /\ (Returned /\ Last.type \in {"Equal", "NotEqual"}) =>
           DispatchByte \in {61, 33}
    /\ (Len(input) >= 2 /\ input[1] \in {60, 62} /\ input[2] = 61
            /\ ByteAt(2) # 61 /\ Len(tokens) >= 2) =>
           /\ tokens[1] = Tok(IF input[1] = 60 THEN "LessThan" ELSE "GreaterThan")
           /\ tokens[2] = Tok("Assign")

\* "<==": LessThan alone, then the merged Equal.
C6_Witness ==
    /\ Len(tokens) = 2
    /\ tokens[1].type \in {"LessThan", "GreaterThan"}
    /\ tokens[2].type = "Equal"
    /\ position = 3

\* C7 as stated: the bytes a call skips before its token are all among
\* space, tab, newline and carriage return, and the byte it stops at is not.
C7_FourBlanks ==
    Called =>
        /\ \A i \in start..(TokStart - 1) : ByteAt(i) \in FourBlanks
        /\ DispatchByte \notin FourBlanks

\* C7 amended: the bytes a call skips before its token are all among space,
\* tab, newline, form feed and carriage return, the byte it stops at is not,
\* and the call returns what a call starting at that byte returns.
C7_FiveBlanks ==
    Called =>
        /\ skipped >= 0
        /\ \A i \in start..(TokStart - 1) : ByteAt(i) \in FiveBlanks
        /\ DispatchByte \notin FiveBlanks
        /\ LET r == next_token(Lexer(TokStart, TokStart + 1, DispatchByte))
           IN  /\ r.result = outcome
               /\ r.lexer.position = position
               /\ Returned => r.tok = Last

\* A form feed and another blank skipped before a token.
C7_Witness ==
    /\ Returned
    /\ skipped >= 2
    /\ \E i \in start..(TokStart - 1) : ByteAt(i) = 12
    /\ \E i \in start..(TokStart - 1) : ByteAt(i) # 12
    /\ Last.type # "Eof"

\* C8: read_position is position + 1, and ch is the byte at position, or 0
\* when position is at or past the end.
C8_CursorInvariant ==
    /\ read_position = position + 1
    /\ ch = IF position < Len(input) THEN input[position + 1] ELSE 0

C8_Witness ==
    /\ Returned
    /\ position > 1
    /\ position < Len(input)
    /\ ch # 0
    /\ C8_CursorInvariant

\* C9: a call that starts at p, skips w bytes and returns a token other than
\* Eof leaves position at p + w + L, L the length of the token's spelling,
\* and that spelling is input[p+w .. p+w+L]; the cursor moved forward.
C9_ExactSpan ==
    (Returned /\ Last.type # "Eof") =>
        LET L == Len(Spelling(Last))
        IN  /\ L >= 1
            /\ skipped >= 0
            /\ position = start + skipped + L
            /\ position <= Len(input)
            /\ SubSeq(input, TokStart + 1, TokStart + L) = Spelling(Last)

\* A two-byte token after skipped whitespace.
C9_Witness ==
    /\ Returned
    /\ skipped >= 1
    /\ Last.type \in {"Equal", "NotEqual"}
    /\ position = start + skipped + 2

\* C10: Eof is returned only with the cursor at or past the end of the
\* input, and no other token follows an Eof.
C10_EofIsEnd ==
    /\ (Returned /\ Last.type = "Eof") => TokStart >= Len(input)
    /\ \A i \in 1..Len(tokens) : \A j \in i..Len(tokens) :
           tokens[i].type = "Eof" => tokens[j].type = "Eof"

====
